---- MODULE Spec2Model ----
(***************************************************************************)
(* A model of the GraphQL API of src/main.py over the tables of            *)
(* src/models.py: the user and post tables of the SQLite store, the        *)
(* Query and Mutation resolvers acting on them, and the count              *)
(* subscription.                                                           *)
(*                                                                         *)
(* Optional values (Optional[int], Optional[str], Optional[UserType]) are  *)
(* sequences of length at most one: None is << >>, a value v is <<v>>.     *)
(***************************************************************************)
EXTENDS Integers, Sequences, FiniteSets, TLC

VARIABLES
    users,   \* the user table: id |-> row
    posts,   \* the post table: id |-> row
    now,     \* the clock datetime.utcnow reads
    last,    \* the request being answered: its resolver, arguments, error and result
    subs,    \* the count subscriptions: subscriber |-> generator state
    reqs     \* the requests in flight when workers share the store: worker |-> request

vars == <<users, posts, now, last, subs, reqs>>

(***************************************************************************)
(* Bounds of the model and the inputs the requests are drawn from.         *)
(***************************************************************************)
MaxClock == 3
MaxArg == 2
MaxTarget == 3
MaxConcClock == 2
MaxSeedClock == 6

Names == {"ann", "bob"}
Emails == {"a@x", "b@x"}
AgeValues == {30}
Titles == {"t1", "t2"}
Contents == {"c1"}

None == << >>
Some(v) == <<v>>
Opt(S) == {None} \cup {Some(v) : v \in S}

IdArgs == 1..MaxArg

\* The defaults of the limit and offset arguments of users and posts.
DefaultLimit == 10
DefaultOffset == 0
LimitArgs == 0..MaxArg \cup {DefaultLimit}
OffsetArgs == 0..MaxArg \cup {DefaultOffset}

\* The server processes that share the store.
Workers == {"w1", "w2"}

\* The subscribers, and the targets they pass to count (its default among them).
Subscribers == {"s1", "s2"}
DefaultTarget == 10
Targets == (-1..MaxTarget) \cup {DefaultTarget}

(***************************************************************************)
(* The errors a resolver call can end with.                                *)
(***************************************************************************)
NoError == "ok"
DuplicateEmail == "User with this email already exists"
UserNotFound == "User not found"
AuthorNotFound == "Author not found"
PostNotFound == "Post not found"
UniqueViolation == "IntegrityError: UNIQUE constraint failed: user.email"
NotNullViolation == "IntegrityError: NOT NULL constraint failed: post.author_id"
NoneAuthor == "AttributeError: 'NoneType' object has no attribute 'id'"
StaleData == "StaleDataError: UPDATE statement on table 'user' expected to update 1 row(s); 0 were matched"
RefreshFailed == "InvalidRequestError: Could not refresh instance"

(***************************************************************************)
(* The store.                                                              *)
(***************************************************************************)
Max(S) == CHOOSE m \in S : \A x \in S : x <= m
Min(S) == CHOOSE m \in S : \A x \in S : m <= x

\* An id allocator that fills the lowest free id.
NextId_lowest_free(table) == Min((1..(Cardinality(DOMAIN table) + 1)) \ DOMAIN table)

\* An id allocator that counts the rows.
NextId_row_count(table) == Cardinality(DOMAIN table) + 1

\* The id the store gives an inserted row: an INTEGER PRIMARY KEY column
\* without AUTOINCREMENT takes one more than the largest id in the table.
NextId(table) == IF DOMAIN table = {} THEN 1 ELSE Max(DOMAIN table) + 1

\* session.get(Model, id): the row, or None.
Get(table, id) == IF id \in DOMAIN table THEN Some(table[id]) ELSE None

Put(table, row) ==
    [i \in DOMAIN table \cup {row.id} |-> IF i = row.id THEN row ELSE table[i]]

Remove(table, id) == [i \in DOMAIN table \ {id} |-> table[i]]

\* The rows of a table in the order a select without ORDER BY scans them:
\* ascending primary key.
RECURSIVE RowsFrom(_, _)
RowsFrom(table, ids) ==
    IF ids = {} THEN << >>
    ELSE <<table[Min(ids)]>> \o RowsFrom(table, ids \ {Min(ids)})

Scan(table) == RowsFrom(table, DOMAIN table)

\* select(...).offset(offset).limit(limit) over the scanned rows.
OffsetLimit(rows, offset, limit) ==
    SubSeq(rows, offset + 1, IF offset + limit < Len(rows) THEN offset + limit ELSE Len(rows))

\* select(User).where(User.email == email).first()
FindByEmail(table, email) ==
    LET hits == {i \in DOMAIN table : table[i].email = email}
    IN  IF hits = {} THEN None ELSE Some(table[Min(hits)])

\* A user table without the UNIQUE index.
EmailTaken_unindexed(table, row) == FALSE

\* The UNIQUE index on user.email: whether writing `row` is rejected.
EmailTaken(table, row) ==
    \E i \in DOMAIN table : i # row.id /\ table[i].email = row.email

\* The rows of post that the relationship User.posts loads for a user.
PostsOf(ptable, uid) == {i \in DOMAIN ptable : ptable[i].author_id = uid}

(***************************************************************************)
(* The GraphQL types.                                                      *)
(***************************************************************************)
\* datetime.isoformat(): a string made from the timestamp.
IsoFormat(t) == <<"iso", t>>

UserTypeOf(u) ==
    [id |-> u.id, name |-> u.name, email |-> u.email, age |-> u.age,
     created_at |-> IsoFormat(u.created_at)]

\* Post.author: the user row the post's author_id names, or None.
Author(utable, p) == Get(utable, p.author_id)

\* The PostType the queries and create_post build from a post row.
PostTypeOf(utable, p) ==
    [id |-> p.id, title |-> p.title, content |-> p.content,
     created_at |-> IsoFormat(p.created_at),
     author |-> UserTypeOf(Author(utable, p)[1])]

\* The PostType update_post builds.
UpdatedPostTypeOf(utable, p) ==
    [id |-> p.id, title |-> p.content, content |-> p.content,
     created_at |-> IsoFormat(p.created_at),
     author |-> UserTypeOf(Author(utable, p)[1])]

Call(op, args, err, ret) == [op |-> op, args |-> args, err |-> err, ret |-> ret]

\* A worker's request: where it stands, the rows its session holds and the
\* error it ended with.
Request(pc, op, loaded, pending, err) ==
    [pc |-> pc, op |-> op, loaded |-> loaded, pending |-> pending, err |-> err]

NoRequest == Request("idle", "none", None, None, NoError)

\* A request that ended with `err`.
Ended(op, err) == Request("done", op, None, None, err)

\* No request is being answered.
Idle == Call("idle", << >>, NoError, None)

(***************************************************************************)
(* The resolvers as functions of the store: each gives the tables after    *)
(* the call, the clock, the error raised (NoError when none) and the       *)
(* value returned.                                                         *)
(***************************************************************************)
Outcome(utable, ptable, clock, err, ret) ==
    [users |-> utable, posts |-> ptable, now |-> clock, err |-> err, ret |-> ret]

\* Whether every post of a sequence has an author row to build its UserType from.
AllAuthored(utable, rows) == \A k \in 1..Len(rows) : Author(utable, rows[k]) # None

\* User(name=..., email=..., age=...): created_at is read off the clock.
NewUser(clock, name, email, age) ==
    [id |-> 0, name |-> name, email |-> email, age |-> age, created_at |-> clock]

\* An INSERT whose constraint failure would be reported as the resolver's
\* own duplicate-email error.
InsertUser_translating(utable, ptable, clock, user) ==
    LET row == [user EXCEPT !.id = NextId(utable)]
    IN  IF EmailTaken(utable, row)
        THEN Outcome(utable, ptable, clock, DuplicateEmail, None)
        ELSE Outcome(Put(utable, row), ptable, clock, NoError, UserTypeOf(row))

\* session.add(user); session.commit() of a new user: the INSERT, which the
\* UNIQUE index on email may reject.
InsertUser(utable, ptable, clock, user) ==
    LET row == [user EXCEPT !.id = NextId(utable)]
    IN  IF EmailTaken(utable, row)
        THEN Outcome(utable, ptable, clock, UniqueViolation, None)
        ELSE Outcome(Put(utable, row), ptable, clock, NoError, UserTypeOf(row))

\* The pre-insert lookup of create_user.
EmailExists(utable, email) == FindByEmail(utable, email) # None

\* create_user without its pre-insert lookup.
create_user_unchecked(utable, ptable, clock, name, email, age) ==
    InsertUser(utable, ptable, clock + 1, NewUser(clock + 1, name, email, age))

create_user(utable, ptable, clock, name, email, age) ==
    IF EmailExists(utable, email)
    THEN Outcome(utable, ptable, clock, DuplicateEmail, None)
    ELSE InsertUser(utable, ptable, clock + 1, NewUser(clock + 1, name, email, age))

\* update_user writing age whether or not it was supplied.
PatchUser_clearing(user, name, email, age) ==
    [user EXCEPT !.name = IF name # None THEN name[1] ELSE @,
                 !.email = IF email # None THEN email[1] ELSE @,
                 !.age = age]

\* The assignments of update_user: a field is written when its argument is not None.
PatchUser(user, name, email, age) ==
    [user EXCEPT !.name = IF name # None THEN name[1] ELSE @,
                 !.email = IF email # None THEN email[1] ELSE @,
                 !.age = IF age # None THEN age ELSE @]

\* session.add(user); session.commit() of a changed user: the UPDATE, which
\* the UNIQUE index on email may reject.
CommitUser(utable, ptable, clock, row) ==
    IF EmailTaken(utable, row)
    THEN Outcome(utable, ptable, clock, UniqueViolation, None)
    ELSE Outcome(Put(utable, row), ptable, clock, NoError, UserTypeOf(row))

\* The flush of a user that was loaded as `loaded` and assigned to as
\* `patched`: the UPDATE sets the columns whose value changed, in the row the
\* table holds under that id at commit time; session.refresh then reads it.
FlushUser(utable, ptable, clock, loaded, patched) ==
    LET id == loaded.id
        changed == {f \in {"name", "email", "age"} : patched[f] # loaded[f]}
    IN  IF changed = {}
        THEN IF id \in DOMAIN utable
             THEN Outcome(utable, ptable, clock, NoError, UserTypeOf(utable[id]))
             ELSE Outcome(utable, ptable, clock, RefreshFailed, None)
        ELSE IF id \notin DOMAIN utable
             THEN Outcome(utable, ptable, clock, StaleData, None)
             ELSE CommitUser(utable, ptable, clock,
                             [f \in DOMAIN utable[id] |->
                                 IF f \in changed THEN patched[f] ELSE utable[id][f]])

update_user(utable, ptable, clock, id, name, email, age) ==
    IF Get(utable, id) = None
    THEN Outcome(utable, ptable, clock, UserNotFound, None)
    ELSE FlushUser(utable, ptable, clock, utable[id], PatchUser(utable[id], name, email, age))

\* A delete that leaves the posts of the user as they are.
DeleteUserRow_orphaning(utable, ptable, clock, id) ==
    Outcome(Remove(utable, id), ptable, clock, NoError, TRUE)

\* session.delete(user); session.commit(): the relationship User.posts has no
\* delete cascade, so the flush first writes NULL to the author_id of every
\* post of the user, and post.author_id (a required int) is NOT NULL: with a
\* post to detach the commit fails and the transaction is rolled back.
DeleteUserRow(utable, ptable, clock, id) ==
    IF PostsOf(ptable, id) # {}
    THEN Outcome(utable, ptable, clock, NotNullViolation, None)
    ELSE Outcome(Remove(utable, id), ptable, clock, NoError, TRUE)

\* delete_user answering true for an id that names no user.
delete_user_silent(utable, ptable, clock, id) ==
    IF Get(utable, id) = None
    THEN Outcome(utable, ptable, clock, NoError, TRUE)
    ELSE DeleteUserRow(utable, ptable, clock, id)

delete_user(utable, ptable, clock, id) ==
    IF Get(utable, id) = None
    THEN Outcome(utable, ptable, clock, UserNotFound, None)
    ELSE DeleteUserRow(utable, ptable, clock, id)

\* Post(title=..., content=..., author_id=...)
NewPost(clock, title, content, author_id) ==
    [id |-> 0, title |-> title, content |-> content, author_id |-> author_id,
     created_at |-> clock]

\* session.add(post); session.commit(); session.refresh(post), then the
\* PostType built from the stored post and its author.
InsertPost(utable, ptable, clock, post) ==
    LET row == [post EXCEPT !.id = NextId(ptable)]
        stored == Put(ptable, row)
    IN  IF Author(utable, row) = None
        THEN Outcome(utable, stored, clock, NoneAuthor, None)
        ELSE Outcome(utable, stored, clock, NoError, PostTypeOf(utable, row))

\* The author check of create_post.
AuthorExists(utable, author_id) == Get(utable, author_id) # None

\* create_post without its author check.
create_post_unchecked(utable, ptable, clock, title, content, author_id) ==
    InsertPost(utable, ptable, clock + 1, NewPost(clock + 1, title, content, author_id))

create_post(utable, ptable, clock, title, content, author_id) ==
    IF ~AuthorExists(utable, author_id)
    THEN Outcome(utable, ptable, clock, AuthorNotFound, None)
    ELSE InsertPost(utable, ptable, clock + 1, NewPost(clock + 1, title, content, author_id))

\* The assignments of update_post.
PatchPost(post, title, content) ==
    [post EXCEPT !.title = IF title # None THEN title[1] ELSE @,
                 !.content = IF content # None THEN content[1] ELSE @]

update_post(utable, ptable, clock, id, title, content) ==
    IF Get(ptable, id) = None
    THEN Outcome(utable, ptable, clock, PostNotFound, None)
    ELSE LET row == PatchPost(ptable[id], title, content)
             stored == Put(ptable, row)
         IN  IF Author(utable, row) = None
             THEN Outcome(utable, stored, clock, NoneAuthor, None)
             ELSE Outcome(utable, stored, clock, NoError, UpdatedPostTypeOf(utable, row))

delete_post(utable, ptable, clock, id) ==
    IF Get(ptable, id) = None
    THEN Outcome(utable, ptable, clock, PostNotFound, None)
    ELSE Outcome(utable, Remove(ptable, id), clock, NoError, TRUE)

(***************************************************************************)
(* The queries: the error raised and the value returned.                   *)
(***************************************************************************)
Answer(err, ret) == [err |-> err, ret |-> ret]

query_users(utable, limit, offset) ==
    LET rows == OffsetLimit(Scan(utable), offset, limit)
    IN  Answer(NoError, [k \in 1..Len(rows) |-> UserTypeOf(rows[k])])

query_user(utable, id) ==
    IF Get(utable, id) # None
    THEN Answer(NoError, Some(UserTypeOf(utable[id])))
    ELSE Answer(NoError, None)

query_posts(utable, ptable, limit, offset) ==
    LET rows == OffsetLimit(Scan(ptable), offset, limit)
    IN  IF AllAuthored(utable, rows)
        THEN Answer(NoError, [k \in 1..Len(rows) |-> PostTypeOf(utable, rows[k])])
        ELSE Answer(NoneAuthor, None)

query_post(utable, ptable, id) ==
    IF Get(ptable, id) = None
    THEN Answer(NoError, None)
    ELSE IF Author(utable, ptable[id]) = None
         THEN Answer(NoneAuthor, None)
         ELSE Answer(NoError, Some(PostTypeOf(utable, ptable[id])))

(***************************************************************************)
(* Subscription.count: an async generator.  A subscriber's generator is    *)
(* not yet created ("idle"), created and not yet run ("start"), suspended  *)
(* at `yield i` ("yield"), suspended in asyncio.sleep ("sleep"), exhausted *)
(* ("done") or closed by the transport ("cancelled").                      *)
(***************************************************************************)
Unsubscribed == [pc |-> "idle", target |-> 0, i |-> 0, emitted |-> << >>]

\* range(target), as the sequence the for loop walks.
Range(target) == [k \in 1..target |-> k - 1]

\* The loop running one value past the range.
LoopAt_one_more(g, i) ==
    IF i <= g.target
    THEN [g EXCEPT !.pc = "yield", !.i = i, !.emitted = Append(@, i)]
    ELSE [g EXCEPT !.pc = "done"]

\* The generator run from the top of the loop with the range iterator at i:
\* it yields i, or the range is exhausted and the generator returns.
LoopAt(g, i) ==
    IF i < g.target
    THEN [g EXCEPT !.pc = "yield", !.i = i, !.emitted = Append(@, i)]
    ELSE [g EXCEPT !.pc = "done"]

Init ==
    /\ users = << >>
    /\ posts = << >>
    /\ now = 0
    /\ last = Idle
    /\ subs = [s \in Subscribers |-> Unsubscribed]
    /\ reqs = [w \in Workers |-> NoRequest]


(***************************************************************************)
(* One request at a time: the dispatcher hands a request to its resolver,   *)
(* which runs from its first read to its commit, and the response is sent  *)
(* before the next request is taken.                                       *)
(***************************************************************************)
\* The store and the call record after a mutation that ended as `out`.
Mutate(op, args, out) ==
    /\ last = Idle
    /\ users' = out.users
    /\ posts' = out.posts
    /\ now' = out.now
    /\ last' = Call(op, args, out.err, out.ret)
    /\ UNCHANGED <<subs, reqs>>

\* The call record after a query that ended as `ans`.
Ask(op, args, ans) ==
    /\ last = Idle
    /\ last' = Call(op, args, ans.err, ans.ret)
    /\ UNCHANGED <<users, posts, now, subs, reqs>>

\* The rows made so far are few enough for one more.
Within(bound, out) == out.now <= bound

CreateUser ==
    \E name \in Names, email \in Emails, age \in Opt(AgeValues) :
        LET out == create_user(users, posts, now, name, email, age)
        IN  Within(MaxClock, out) /\ Mutate("createUser", <<name, email, age>>, out)

UpdateUser ==
    \E id \in IdArgs, name \in Opt(Names), email \in Opt(Emails), age \in Opt(AgeValues) :
        Mutate("updateUser", <<id, name, email, age>>,
               update_user(users, posts, now, id, name, email, age))

DeleteUser ==
    \E id \in IdArgs :
        Mutate("deleteUser", <<id>>, delete_user(users, posts, now, id))

CreatePost ==
    \E title \in Titles, content \in Contents, author_id \in IdArgs :
        LET out == create_post(users, posts, now, title, content, author_id)
        IN  Within(MaxClock, out) /\ Mutate("createPost", <<title, content, author_id>>, out)

UpdatePost ==
    \E id \in IdArgs, title \in Opt(Titles), content \in Opt(Contents) :
        Mutate("updatePost", <<id, title, content>>,
               update_post(users, posts, now, id, title, content))

DeletePost ==
    \E id \in IdArgs :
        Mutate("deletePost", <<id>>, delete_post(users, posts, now, id))

QueryUsers ==
    \E limit \in LimitArgs, offset \in OffsetArgs :
        Ask("users", <<limit, offset>>, query_users(users, limit, offset))

QueryUser ==
    \E id \in IdArgs : Ask("user", <<id>>, query_user(users, id))

QueryPosts ==
    \E limit \in LimitArgs, offset \in OffsetArgs :
        Ask("posts", <<limit, offset>>, query_posts(users, posts, limit, offset))

QueryPost ==
    \E id \in IdArgs : Ask("post", <<id>>, query_post(users, posts, id))

\* The response is serialized and sent.
Respond ==
    /\ last # Idle
    /\ last' = Idle
    /\ UNCHANGED <<users, posts, now, subs, reqs>>

Next ==
    \/ Respond
    \/ CreateUser
    \/ UpdateUser
    \/ DeleteUser
    \/ CreatePost
    \/ UpdatePost
    \/ DeletePost
    \/ QueryUsers
    \/ QueryUser
    \/ QueryPosts
    \/ QueryPost

Spec == Init /\ [][Next]_vars

(***************************************************************************)
(* One request at a time on a store that is filled with more rows of fewer *)
(* kinds: the users are all named alike, the posts all have one title and  *)
(* one content.                                                            *)
(***************************************************************************)
SeedUser ==
    \E email \in Emails :
        LET out == create_user(users, posts, now, "ann", email, None)
        IN  Within(MaxSeedClock, out) /\ Mutate("createUser", <<"ann", email, None>>, out)

SeedPost ==
    \E author_id \in IdArgs :
        LET out == create_post(users, posts, now, "t1", "c1", author_id)
        IN  Within(MaxSeedClock, out) /\ Mutate("createPost", <<"t1", "c1", author_id>>, out)

NextPaging ==
    \/ Respond
    \/ SeedUser
    \/ SeedPost
    \/ DeleteUser
    \/ DeletePost
    \/ QueryUsers
    \/ QueryPosts

SpecPaging == Init /\ [][NextPaging]_vars

(***************************************************************************)
(* The count subscriptions, each driven by its consumer and its timer.     *)
(***************************************************************************)
\* A subscription request: the generator is created.
Subscribe(s) ==
    /\ subs[s].pc = "idle"
    /\ \E target \in Targets :
           subs' = [subs EXCEPT ![s] = [Unsubscribed EXCEPT !.pc = "start", !.target = target]]
    /\ UNCHANGED <<users, posts, now, last, reqs>>

\* The consumer asks for the first value: the generator runs to its first yield.
Start(s) ==
    /\ subs[s].pc = "start"
    /\ subs' = [subs EXCEPT ![s] = LoopAt(@, 0)]
    /\ UNCHANGED <<users, posts, now, last, reqs>>

\* The consumer asks for the next value: the generator goes on to asyncio.sleep(1).
Sleep(s) ==
    /\ subs[s].pc = "yield"
    /\ subs' = [subs EXCEPT ![s].pc = "sleep"]
    /\ UNCHANGED <<users, posts, now, last, reqs>>

\* The sleep is over: the loop takes the next value of the range.
Wake(s) ==
    /\ subs[s].pc = "sleep"
    /\ subs' = [subs EXCEPT ![s] = LoopAt(@, @.i + 1)]
    /\ UNCHANGED <<users, posts, now, last, reqs>>

\* The connection closes: the transport closes the suspended generator.
Cancel(s) ==
    /\ subs[s].pc \in {"start", "yield", "sleep"}
    /\ subs' = [subs EXCEPT ![s].pc = "cancelled"]
    /\ UNCHANGED <<users, posts, now, last, reqs>>

Advance(s) == Start(s) \/ Sleep(s) \/ Wake(s)

NextCount ==
    \E s \in Subscribers :
        \/ Subscribe(s)
        \/ Start(s)
        \/ Sleep(s)
        \/ Wake(s)
        \/ Cancel(s)

\* The event loop runs every generator whose consumer or timer is ready.
SpecCount == Init /\ [][NextCount]_vars /\ \A s \in Subscribers : WF_vars(Advance(s))

(***************************************************************************)
(* Several workers on one store: a resolver's reads and its commit are     *)
(* separate steps, and another worker's commit can fall between them.  The *)
(* store serializes the commits.  The user mutations are modelled; they    *)
(* are the only writers of the user table.  The requests leave age out.    *)
(***************************************************************************)
\* create_user up to session.add: the lookup, then the User is made.
BeginCreateUser(w) ==
    /\ reqs[w].pc = "idle"
    /\ \E name \in Names, email \in Emails, age \in {None} :
           IF EmailExists(users, email)
           THEN /\ reqs' = [reqs EXCEPT ![w] = Ended("createUser", DuplicateEmail)]
                /\ now' = now
           ELSE /\ now < MaxConcClock
                /\ reqs' = [reqs EXCEPT ![w] =
                       Request("commit", "createUser", None,
                               Some(NewUser(now + 1, name, email, age)), NoError)]
                /\ now' = now + 1
    /\ UNCHANGED <<users, posts, last, subs>>

\* session.commit() of create_user.
CommitCreateUser(w) ==
    /\ reqs[w].pc = "commit"
    /\ reqs[w].op = "createUser"
    /\ LET out == InsertUser(users, posts, now, reqs[w].pending[1])
       IN  /\ users' = out.users
           /\ reqs' = [reqs EXCEPT ![w] = Ended("createUser", out.err)]
    /\ UNCHANGED <<posts, now, last, subs>>

\* update_user up to session.add: the user is loaded and assigned to.
BeginUpdateUser(w) ==
    /\ reqs[w].pc = "idle"
    /\ \E id \in IdArgs, name \in Opt(Names), email \in Opt(Emails), age \in {None} :
           IF Get(users, id) = None
           THEN reqs' = [reqs EXCEPT ![w] = Ended("updateUser", UserNotFound)]
           ELSE reqs' = [reqs EXCEPT ![w] =
                    Request("commit", "updateUser", Some(users[id]),
                            Some(PatchUser(users[id], name, email, age)), NoError)]
    /\ UNCHANGED <<users, posts, now, last, subs>>

\* session.commit() and session.refresh() of update_user.
CommitUpdateUser(w) ==
    /\ reqs[w].pc = "commit"
    /\ reqs[w].op = "updateUser"
    /\ LET out == FlushUser(users, posts, now, reqs[w].loaded[1], reqs[w].pending[1])
       IN  /\ users' = out.users
           /\ reqs' = [reqs EXCEPT ![w] = Ended("updateUser", out.err)]
    /\ UNCHANGED <<posts, now, last, subs>>

\* delete_user up to session.delete: the user is loaded.
BeginDeleteUser(w) ==
    /\ reqs[w].pc = "idle"
    /\ \E id \in IdArgs :
           IF Get(users, id) = None
           THEN reqs' = [reqs EXCEPT ![w] = Ended("deleteUser", UserNotFound)]
           ELSE reqs' = [reqs EXCEPT ![w] =
                    Request("commit", "deleteUser", Some(users[id]), None, NoError)]
    /\ UNCHANGED <<users, posts, now, last, subs>>

\* session.commit() of delete_user: a DELETE that matches no row is only warned about.
CommitDeleteUser(w) ==
    /\ reqs[w].pc = "commit"
    /\ reqs[w].op = "deleteUser"
    /\ LET out == DeleteUserRow(users, posts, now, reqs[w].loaded[1].id)
       IN  /\ users' = out.users
           /\ reqs' = [reqs EXCEPT ![w] = Ended("deleteUser", out.err)]
    /\ UNCHANGED <<posts, now, last, subs>>

\* The worker sends the response and takes the next request.
Finish(w) ==
    /\ reqs[w].pc = "done"
    /\ reqs' = [reqs EXCEPT ![w] = NoRequest]
    /\ UNCHANGED <<users, posts, now, last, subs>>

NextConc ==
    \E w \in Workers :
        \/ BeginCreateUser(w)
        \/ CommitCreateUser(w)
        \/ BeginUpdateUser(w)
        \/ CommitUpdateUser(w)
        \/ BeginDeleteUser(w)
        \/ CommitDeleteUser(w)
        \/ Finish(w)

SpecConc == Init /\ [][NextConc]_vars

(***************************************************************************)
(* Properties of the user table under interleaved requests (SpecConc).     *)
(***************************************************************************)
\* C1: in every state reachable by any sequence and any interleaving of
\* createUser, updateUser and deleteUser calls, no two stored users have
\* the same email.
C1_UniqueEmail ==
    \A i, j \in DOMAIN users : users[i].email = users[j].email => i = j

\* Two users are stored and an updateUser that would have given one the
\* email of the other was rejected by the store while another request was
\* in flight.
C1_Witness ==
    /\ Cardinality(DOMAIN users) = 2
    /\ \E w \in Workers :
           /\ reqs[w].op = "updateUser"
           /\ reqs[w].err = UniqueViolation
    /\ \E w \in Workers : reqs[w].pc = "commit"

\* Worker w holds a createUser request that passed the lookup for this
\* email and has not committed yet.
C11_Pending(w, email) ==
    /\ reqs[w].pc = "commit"
    /\ reqs[w].op = "createUser"
    /\ reqs[w].pending[1].email = email

\* The ids of the stored users with this email, in a user table.
C11_Holders(utable, email) == {i \in DOMAIN utable : utable[i].email = email}

\* C11: two createUser requests with the same email can both pass the
\* duplicate lookup before either commits.  A createUser that passed the
\* lookup and commits after the email has been stored fails with the
\* store's UNIQUE constraint error, never with 'User with this email
\* already exists', and stores nothing; one that commits while the email is
\* still free stores one user.  After either commit exactly one stored
\* user has the email, so at most one of two racing inserts is committed.
C11_LoserFailsRaw ==
    [][\A w \in Workers, email \in Emails :
           (C11_Pending(w, email) /\ reqs'[w].pc = "done")
               => /\ Cardinality(C11_Holders(users', email)) = 1
                  /\ IF C11_Holders(users, email) # {}
                     THEN /\ reqs'[w].err = UniqueViolation
                          /\ reqs'[w].err # DuplicateEmail
                          /\ users' = users
                     ELSE /\ reqs'[w].err = NoError
                          /\ Cardinality(DOMAIN users') = Cardinality(DOMAIN users) + 1]_vars

\* Both workers have passed the lookup for the same email and neither has
\* committed: the email is not stored yet.
C11_BothPassed ==
    \E email \in Emails :
        /\ \A w \in Workers : C11_Pending(w, email)
        /\ C11_Holders(users, email) = {}

\* The race has been run: only two createUser requests ever passed the
\* lookup (the clock is 2), one has committed its insert, the other has
\* failed with the store's constraint error, and one user is stored.
C11_Witness ==
    /\ now = 2
    /\ Cardinality(DOMAIN users) = 1
    /\ \E w1, w2 \in Workers :
           /\ w1 # w2
           /\ reqs[w1] = Ended("createUser", NoError)
           /\ reqs[w2] = Ended("createUser", UniqueViolation)

(***************************************************************************)
(* Properties of the resolvers, one request at a time (Spec).  A step that *)
(* takes a request leads from last = Idle to the record of the call; the   *)
(* unprimed tables are the store before the call, the primed ones after.   *)
(***************************************************************************)
Took(op) == last = Idle /\ last'.op = op

\* Some stored user has this email.
EmailStored(email) == \E i \in DOMAIN users : users[i].email = email

\* C2: createUser with an email that a stored user already has fails with
\* the error 'User with this email already exists', and the stored users
\* and posts after the call are the ones before it.
C2_DuplicateEmailRejected ==
    [][(Took("createUser") /\ EmailStored(last'.args[2]))
        => (/\ last'.err = "User with this email already exists"
            /\ users' = users
            /\ posts' = posts)]_vars

\* A createUser call was answered with the duplicate-email error while a
\* stored user has that email.
C2_Witness ==
    /\ last.op = "createUser"
    /\ last.err = DuplicateEmail
    /\ EmailStored(last.args[2])

\* C3: createPost whose authorId names no stored user fails with the error
\* 'Author not found' and leaves the stored users and posts unchanged.
C3_AuthorNotFoundRejected ==
    [][(Took("createPost") /\ last'.args[3] \notin DOMAIN users)
        => (/\ last'.err = "Author not found"
            /\ users' = users
            /\ posts' = posts)]_vars

\* A createPost call naming no stored user was answered with 'Author not
\* found' while users and posts are stored.
C3_Witness ==
    /\ last.op = "createPost"
    /\ last.err = AuthorNotFound
    /\ last.args[3] \notin DOMAIN users
    /\ DOMAIN users # {}
    /\ DOMAIN posts # {}

\* The user row that updateUser(id, name, email, age) is claimed to leave:
\* the supplied fields overwritten, the others, id and created_at kept.
C4_Expected(u, name, email, age) ==
    [id |-> u.id,
     name |-> IF name # None THEN name[1] ELSE u.name,
     email |-> IF email # None THEN email[1] ELSE u.email,
     age |-> IF age # None THEN age ELSE u.age,
     created_at |-> u.created_at]

\* The store after the call holds the expected row at id and is otherwise unchanged.
C4_Overwritten(id, name, email, age) ==
    /\ DOMAIN users' = DOMAIN users
    /\ users'[id] = C4_Expected(users[id], name, email, age)
    /\ \A j \in DOMAIN users \ {id} : users'[j] = users[j]
    /\ posts' = posts

\* The supplied email is the email of another stored user.
C4_EmailCollides(id, email) ==
    /\ email # None
    /\ \E j \in DOMAIN users \ {id} : users[j].email = email[1]

\* C4 as stated: updateUser on an existing id overwrites exactly the supplied
\* fields among name, email, age and leaves the omitted fields, the id and
\* created_at of that user, and every other user and post, unchanged.
C4_Original ==
    [][(Took("updateUser") /\ last'.args[1] \in DOMAIN users)
        => C4_Overwritten(last'.args[1], last'.args[2], last'.args[3], last'.args[4])]_vars

\* C4 as amended: updateUser on an existing id, with an email argument that
\* is not the email of another stored user, overwrites exactly the fields
\* supplied (not None) and leaves everything else unchanged; with an email
\* that another stored user has, it fails with the store's uniqueness error
\* and changes nothing.
C4_PartialUpdate ==
    [][(Took("updateUser") /\ last'.args[1] \in DOMAIN users)
        => IF C4_EmailCollides(last'.args[1], last'.args[3])
           THEN /\ last'.err = UniqueViolation
                /\ users' = users
                /\ posts' = posts
           ELSE /\ last'.err = NoError
                /\ C4_Overwritten(last'.args[1], last'.args[2], last'.args[3], last'.args[4])]_vars

\* An updateUser call supplying only a new age was answered: the stored
\* user has that age, while another user and a post are stored.
C4_Witness ==
    /\ last.op = "updateUser"
    /\ last.err = NoError
    /\ last.args[2] = None
    /\ last.args[3] = None
    /\ last.args[4] # None
    /\ users[last.args[1]].age = last.args[4]
    /\ Cardinality(DOMAIN users) = 2
    /\ DOMAIN posts # {}

\* The post row that updatePost(id, title, content) is claimed to leave.
C5_Expected(p, title, content) ==
    [id |-> p.id,
     title |-> IF title # None THEN title[1] ELSE p.title,
     content |-> IF content # None THEN content[1] ELSE p.content,
     author_id |-> p.author_id,
     created_at |-> p.created_at]

\* The user a stored post names as its author is stored, and `author` is
\* that user's UserType.
IsAuthorOf(author, p) ==
    /\ p.author_id \in DOMAIN users
    /\ author.id = p.author_id
    /\ author.name = users[p.author_id].name
    /\ author.email = users[p.author_id].email
    /\ author.age = users[p.author_id].age
    /\ author.created_at = IsoFormat(users[p.author_id].created_at)

\* C5: updatePost on an existing id stores the supplied fields and keeps the
\* omitted ones, and the Post it returns has the title, content, id,
\* created_at and author of the stored post after the update.
C5_UpdatePostReturnsStored ==
    [][(Took("updatePost") /\ last'.args[1] \in DOMAIN posts)
        => LET id == last'.args[1]
               p == C5_Expected(posts[id], last'.args[2], last'.args[3])
           IN  /\ last'.err = NoError
               /\ DOMAIN posts' = DOMAIN posts
               /\ posts'[id] = p
               /\ \A j \in DOMAIN posts \ {id} : posts'[j] = posts[j]
               /\ users' = users
               /\ last'.ret.id = p.id
               /\ last'.ret.title = p.title
               /\ last'.ret.content = p.content
               /\ last'.ret.created_at = IsoFormat(p.created_at)
               /\ IsAuthorOf(last'.ret.author, p)]_vars

\* The part of C5 about the store: updatePost on an existing id stores the
\* supplied fields, keeps the omitted ones and changes nothing else.
C5_StoredPart ==
    [][(Took("updatePost") /\ last'.args[1] \in DOMAIN posts)
        => LET id == last'.args[1]
               p == C5_Expected(posts[id], last'.args[2], last'.args[3])
           IN  /\ last'.err = NoError
               /\ DOMAIN posts' = DOMAIN posts
               /\ posts'[id] = p
               /\ \A j \in DOMAIN posts \ {id} : posts'[j] = posts[j]
               /\ users' = users]_vars

\* The PostType a posts or post query returned stands for a stored post and
\* carries that post's stored author.
C6_Carried(pt) ==
    /\ pt.id \in DOMAIN posts
    /\ IsAuthorOf(pt.author, posts[pt.id])

C7_Removed(id) ==
    /\ DOMAIN users' = DOMAIN users \ {id}
    /\ \A j \in DOMAIN users' : users'[j] = users[j]
    /\ posts' = posts

\* deleteUser on an id that names no stored user fails with 'User not found'
\* and changes nothing.
C7_MissingRejected(id) ==
    /\ last'.err = "User not found"
    /\ users' = users
    /\ posts' = posts

\* Once an id names no stored user, it names none until a createUser runs.
C7_StaysAbsent ==
    \A id \in 1..MaxClock :
        (id \notin DOMAIN users /\ last'.op # "createUser") => id \notin DOMAIN users'

\* user(id) on an id that names no stored user returns null, not an error.
C7_AbsentIsNull ==
    (last.op = "user" /\ last.args[1] \notin DOMAIN users)
        => (last.err = NoError /\ last.ret = None)

\* C7 as stated: deleteUser on an id that names no stored user fails with
\* 'User not found' and changes nothing; on an existing id it returns true
\* and removes exactly that user row.
C7_Original ==
    [][Took("deleteUser")
        => IF last'.args[1] \notin DOMAIN users
           THEN C7_MissingRejected(last'.args[1])
           ELSE /\ last'.err = NoError
                /\ last'.ret = TRUE
                /\ C7_Removed(last'.args[1])]_vars

\* C7 as amended: deleteUser on an id that names no stored user fails with
\* 'User not found' and changes nothing; on the id of a user who is the
\* author of no stored post it returns true and removes exactly that user
\* row; on the id of a user who is the author of a stored post it fails
\* with the store's NOT NULL error and changes nothing.  An id that names
\* no stored user names none until a createUser runs, and user(id) on such
\* an id returns null, not an error.
C7_DeleteUser ==
    /\ [][Took("deleteUser")
           => IF last'.args[1] \notin DOMAIN users
              THEN C7_MissingRejected(last'.args[1])
              ELSE IF \E k \in DOMAIN posts : posts[k].author_id = last'.args[1]
                   THEN /\ last'.err = NotNullViolation
                        /\ users' = users
                        /\ posts' = posts
                   ELSE /\ last'.err = NoError
                        /\ last'.ret = TRUE
                        /\ C7_Removed(last'.args[1])]_vars
    /\ [][C7_StaysAbsent]_vars
    /\ []C7_AbsentIsNull

\* user(id) returned null for an id that a createUser had assigned and a
\* deleteUser removed: the clock shows an insert and no user is stored.
C7_Witness ==
    /\ last.op = "user"
    /\ last.err = NoError
    /\ last.ret = None
    /\ now >= 1
    /\ DOMAIN users = {}

\* The place of a row in the order of insertion: rows are stamped with the
\* clock as they are made, so an earlier row has a smaller created_at.
C8_Rank(table, id) ==
    Cardinality({j \in DOMAIN table : table[j].created_at <= table[id].created_at})

\* How many rows the slice [offset, offset + limit) of n rows holds.
C8_SliceLen(n, limit, offset) ==
    IF n <= offset THEN 0 ELSE IF n - offset < limit THEN n - offset ELSE limit

\* `ret` lists the slice [offset, offset + limit) of the table's rows in
\* insertion order: its k-th entry is the row inserted (offset + k)-th.
C8_IsSlice(table, ret, limit, offset) ==
    /\ Len(ret) = C8_SliceLen(Cardinality(DOMAIN table), limit, offset)
    /\ \A k \in 1..Len(ret) :
           /\ ret[k].id \in DOMAIN table
           /\ C8_Rank(table, ret[k].id) = offset + k
           /\ ret[k].created_at = IsoFormat(table[ret[k].id].created_at)

\* Insertion order is ascending id order.
C8_IdOrder(table) ==
    \A i, j \in DOMAIN table : (i < j) <=> (table[i].created_at < table[j].created_at)

\* C8: for every store content and every limit >= 0 and offset >= 0,
\* users(limit, offset) and posts(limit, offset) return the slice
\* [offset, offset + limit) of the stored rows taken in insertion order,
\* which is ascending id order.
C8_Paging ==
    /\ C8_IdOrder(users)
    /\ C8_IdOrder(posts)
    /\ last.op = "users" =>
           /\ last.err = NoError
           /\ C8_IsSlice(users, last.ret, last.args[1], last.args[2])
           /\ \A k \in 1..Len(last.ret) :
                  /\ last.ret[k].name = users[last.ret[k].id].name
                  /\ last.ret[k].email = users[last.ret[k].id].email
                  /\ last.ret[k].age = users[last.ret[k].id].age
    /\ last.op = "posts" =>
           /\ last.err = NoError
           /\ C8_IsSlice(posts, last.ret, last.args[1], last.args[2])
           /\ \A k \in 1..Len(last.ret) :
                  /\ last.ret[k].title = posts[last.ret[k].id].title
                  /\ last.ret[k].content = posts[last.ret[k].id].content

\* posts(limit=2, offset=1) over the posts 1..5 returned exactly the posts
\* 2 and 3.
C8_Witness ==
    /\ last.op = "posts"
    /\ last.args = <<2, 1>>
    /\ DOMAIN posts = 1..5
    /\ Len(last.ret) = 2
    /\ last.ret[1].id = 2
    /\ last.ret[2].id = 3

\* C10: a successful createUser(name, email, age) returns a user with a
\* server-assigned id that no other stored user has and a created_at; the
\* stored users are the ones before the call and the new one; and user(id)
\* run next with that id returns the id, name, email, age and created_at
\* that createUser returned, the name, email and age being the input.
C10_CreateThenFetch ==
    /\ [][(Took("createUser") /\ last'.err = NoError)
           => /\ last'.ret.id \in 1..MaxClock
              /\ last'.ret.id \notin DOMAIN users
              /\ DOMAIN users' = DOMAIN users \cup {last'.ret.id}
              /\ \A j \in DOMAIN users : users'[j] = users[j]
              /\ \E t \in 1..MaxClock : last'.ret.created_at = IsoFormat(t)]_vars
    /\ [](last.op = "createUser" /\ last.err = NoError
           => /\ query_user(users, last.ret.id) = Answer(NoError, Some(last.ret))
              /\ last.ret.name = last.args[1]
              /\ last.ret.email = last.args[2]
              /\ last.ret.age = last.args[3])

\* A createUser succeeded while another user is stored, after an earlier
\* user had been deleted: three users were made and two are stored.
C10_Witness ==
    /\ last.op = "createUser"
    /\ last.err = NoError
    /\ Cardinality(DOMAIN users) = 2
    /\ DOMAIN posts = {}
    /\ now = 3

(***************************************************************************)
(* Properties of the count subscription (SpecCount).                       *)
(***************************************************************************)
\* The values emitted so far are 0, 1, ... in increasing order, each once,
\* and none is target or more.
C9_Prefix(g) ==
    /\ \A k \in 1..Len(g.emitted) : g.emitted[k] = k - 1
    /\ Len(g.emitted) <= (IF g.target > 0 THEN g.target ELSE 0)

\* A completed subscription has emitted exactly 0, ..., target - 1.
C9_Complete(g) ==
    g.pc = "done" => Len(g.emitted) = (IF g.target > 0 THEN g.target ELSE 0)

\* A cancelled or completed subscription emits nothing more.
C9_Stopped(s) ==
    subs[s].pc \in {"cancelled", "done"} => subs'[s] = subs[s]

\* C9: a count(target) subscription emits the values 0, 1, ..., target - 1
\* in increasing order, each once; one that is not cancelled emits all of
\* them and then completes, for every target (none when target <= 0), and
\* a cancelled one has emitted a prefix of them and emits nothing after the
\* cancellation.
C9_Count ==
    /\ [](\A s \in Subscribers : C9_Prefix(subs[s]) /\ C9_Complete(subs[s]))
    /\ [][\A s \in Subscribers : C9_Stopped(s)]_vars
    /\ \A s \in Subscribers :
           (subs[s].pc = "start") ~> (subs[s].pc \in {"done", "cancelled"})

\* One subscription completed count(3) having emitted 0, 1, 2 and the other
\* was cancelled after its first value of three.
C9_Witness ==
    /\ subs["s1"].pc = "done"
    /\ subs["s1"].target = 3
    /\ subs["s1"].emitted = <<0, 1, 2>>
    /\ subs["s2"].pc = "cancelled"
    /\ subs["s2"].target = 3
    /\ subs["s2"].emitted = <<0>>

====
